---- MODULE Spec2Model ----
(***************************************************************************)
(* Model of the StatmusePicker analysis engine (server/analyzer.ts).       *)
(*                                                                         *)
(* analyzeProjection is modelled as a sequential program: one action per   *)
(* block of the function, the function's `let` variables as state, and pc  *)
(* as the position in the function body.                                   *)
(*                                                                         *)
(* Numbers.  A JavaScript number is a record [k, v]: k = "fin" with v the  *)
(* value in HALVES (v = 49 is 24.5), k = "inf" with v the sign, k = "nan". *)
(* null is [k |-> "null"].  On halves the subtraction recentAverage -      *)
(* lineScore is exact in IEEE doubles, and for every pair of halves of     *)
(* magnitude up to 200 the double (difference / lineScore) * 100 compares  *)
(* with 15 and with 8 exactly as the rational does, so the percent         *)
(* difference is kept as the exact fraction n / d.                         *)
(*                                                                         *)
(* Strings.  The reasoning is a sequence of tokens: one token per clause   *)
(* template (its interpolated numbers left out) and " " for the blank that *)
(* ends a clause; trim() acts on the blanks.                               *)
(***************************************************************************)
EXTENDS Integers, Sequences, FiniteSets

VARIABLES
    lineScore,            \* argument lineScore
    playerStats,          \* argument playerStats
    pc,                   \* position in analyzeProjection
    recommendation,       \* let recommendation
    baseConfidence,       \* let baseConfidence
    reasoning,            \* let reasoning
    confidenceAdjustment, \* let confidenceAdjustment
    result,               \* the returned AnalysisResult
    \* batchAnalyze
    projections,          \* argument projections
    batchResults,         \* the array map() is filling
    batchPc,              \* position in batchAnalyze
    \* concurrent callers of analyzeProjection
    callArgs,             \* caller -> the arguments of its call
    frames,               \* activation record -> position, let variables, result
    \* the router procedures projections.analyze and projections.analyzeAll
    procedure,            \* the procedure invoked
    projectionsData,      \* the stored projections the procedure reads
    routerPc,             \* position in the procedure
    cursor,               \* index of the projection being handled
    pendingAnalysis,      \* const analysis, handed to saveAnalysis
    analyzed,             \* let analyzed
    savedAnalyses,        \* the rows inserted into analyses
    engineArgs,           \* the lineScore of every analyzeProjection call made
    statsCalls,           \* every getPlayerStats call: request, LLM reply, summary returned
    response,             \* what the procedure returns
    \* batchGetPlayerStats
    requests,             \* argument projections
    fetchI,               \* loop variable i
    inFlight,             \* indices whose getPlayerStats call is pending
    settled,              \* index -> the summary its call resolved with
    fetchResults,         \* const results
    fetchPc               \* position in batchGetPlayerStats

engineVars == <<lineScore, playerStats, pc, recommendation, baseConfidence,
                reasoning, confidenceAdjustment, result>>
batchVars == <<projections, batchResults, batchPc>>
callVars == <<callArgs, frames>>
routerVars == <<procedure, projectionsData, routerPc, cursor, pendingAnalysis,
                analyzed, savedAnalyses, engineArgs, statsCalls, response>>
fetchVars == <<requests, fetchI, inFlight, settled, fetchResults, fetchPc>>

vars == <<engineVars, batchVars, callVars, routerVars, fetchVars>>

----------------------------------------------------------------------------
(* JavaScript numbers *)

Null == [k |-> "null", v |-> 0]
NaN == [k |-> "nan", v |-> 0]
PosInf == [k |-> "inf", v |-> 1]
NegInf == [k |-> "inf", v |-> -1]
Fin(n) == [k |-> "fin", v |-> n]

Abs(n) == IF n < 0 THEN -n ELSE n
Sgn(n) == IF n < 0 THEN -1 ELSE IF n > 0 THEN 1 ELSE 0

\* ToNumber: null coerces to 0 in arithmetic
ToNumber(x) == IF x.k = "null" THEN Fin(0) ELSE x

\* a - b
JsSub(a0, b0) ==
    LET a == ToNumber(a0)
        b == ToNumber(b0)
    IN  IF a.k = "nan" \/ b.k = "nan" THEN NaN
        ELSE IF a.k = "fin" /\ b.k = "fin" THEN Fin(a.v - b.v)
        ELSE IF a.k = "inf" /\ b.k = "fin" THEN a
        ELSE IF a.k = "fin" /\ b.k = "inf" THEN [k |-> "inf", v |-> -b.v]
        ELSE IF a.v = b.v THEN NaN ELSE a

\* variant: a comparison with NaN is true
JsGtNaNTrue(a0, b0) ==
    LET a == ToNumber(a0)
        b == ToNumber(b0)
    IN  IF a.k = "nan" \/ b.k = "nan" THEN TRUE
        ELSE IF a.k = "fin" /\ b.k = "fin" THEN a.v > b.v
        ELSE IF a.k = "inf" /\ b.k = "fin" THEN a.v > 0
        ELSE IF a.k = "fin" /\ b.k = "inf" THEN b.v < 0
        ELSE a.v > b.v

\* a > b; any comparison with NaN is false
JsGt(a0, b0) ==
    LET a == ToNumber(a0)
        b == ToNumber(b0)
    IN  IF a.k = "nan" \/ b.k = "nan" THEN FALSE
        ELSE IF a.k = "fin" /\ b.k = "fin" THEN a.v > b.v
        ELSE IF a.k = "inf" /\ b.k = "fin" THEN a.v > 0
        ELSE IF a.k = "fin" /\ b.k = "inf" THEN b.v < 0
        ELSE a.v > b.v

JsLt(a, b) == JsGt(b, a)

\* variant: a zero divisor is special-cased and gives 0
JsPercentZeroGuard(a0, b0) ==
    LET a == ToNumber(a0)
        b == ToNumber(b0)
    IN  IF a.k = "nan" \/ b.k = "nan" THEN [k |-> "nan", n |-> 0, d |-> 1]
        ELSE IF a.k = "inf" /\ b.k = "inf" THEN [k |-> "nan", n |-> 0, d |-> 1]
        ELSE IF a.k = "inf"
             THEN [k |-> "inf", n |-> IF b.v < 0 THEN -a.v ELSE a.v, d |-> 1]
        ELSE IF b.k = "inf" THEN [k |-> "fin", n |-> 0, d |-> 1]
        ELSE IF b.v = 0 THEN [k |-> "fin", n |-> 0, d |-> 1]
        ELSE [k |-> "fin", n |-> a.v * 100, d |-> b.v]

\* (a / b) * 100 as a fraction [k, n, d]: n / d when finite, n the sign
\* when infinite.  x / 0 is +-Infinity, 0 / 0 and Infinity / Infinity NaN.
JsPercent(a0, b0) ==
    LET a == ToNumber(a0)
        b == ToNumber(b0)
    IN  IF a.k = "nan" \/ b.k = "nan" THEN [k |-> "nan", n |-> 0, d |-> 1]
        ELSE IF a.k = "inf" /\ b.k = "inf" THEN [k |-> "nan", n |-> 0, d |-> 1]
        ELSE IF a.k = "inf"
             THEN [k |-> "inf", n |-> IF b.v < 0 THEN -a.v ELSE a.v, d |-> 1]
        ELSE IF b.k = "inf" THEN [k |-> "fin", n |-> 0, d |-> 1]
        ELSE IF b.v = 0
             THEN IF a.v = 0 THEN [k |-> "nan", n |-> 0, d |-> 1]
                  ELSE [k |-> "inf", n |-> Sgn(a.v), d |-> 1]
        ELSE [k |-> "fin", n |-> a.v * 100, d |-> b.v]

\* variant: >= in place of >
AbsExceedsInclusive(p, t) ==
    IF p.k = "nan" THEN FALSE
    ELSE IF p.k = "inf" THEN TRUE
    ELSE Abs(p.n) >= t * Abs(p.d)

\* Math.abs(p) > t for a fraction p and an integer t
AbsExceeds(p, t) ==
    IF p.k = "nan" THEN FALSE
    ELSE IF p.k = "inf" THEN TRUE
    ELSE Abs(p.n) > t * Abs(p.d)

\* Number.prototype.toFixed(1): the decimal string, held in tenths;
\* calling it on null is a TypeError.
ToFixed1(x) ==
    IF x.k = "null" THEN [k |-> "TypeError", v |-> 0]
    ELSE IF x.k = "nan" THEN [k |-> "strNaN", v |-> 0]
    ELSE IF x.k = "inf" THEN [k |-> "strInfinity", v |-> x.v]
    ELSE [k |-> "str", v |-> x.v * 5]

MathMax(a, b) == IF a > b THEN a ELSE b
MathMin(a, b) == IF a < b THEN a ELSE b

----------------------------------------------------------------------------
(* Bounds and input sets *)

MaxGames == 5

LineScores ==
    {NaN, PosInf, NegInf} \cup {Fin(v) : v \in {-40, 0, 40, 44, 50}}

RecentAverages ==
    {Null} \cup {Fin(v) : v \in {-46, 0, 34, 38, 42, 44, 46, 48, 54}}

GameValues == {Fin(36), Fin(44)}

\* n games of value x
Run(x, n) == [i \in 1..n |-> x]

\* the game lists of up to MaxGames games made of two runs
Last5Choices ==
    {s \in {Run(x, a) \o Run(y, b) :
                x \in GameValues, y \in GameValues, a \in 0..MaxGames, b \in 0..MaxGames} :
        Len(s) <= MaxGames}

Consistencies == {"high", "medium", "low"}
Trends == {"increasing", "stable", "decreasing"}

Last10Choices == {<<>>, <<Fin(36), Fin(44), Fin(44)>>}

PlayerStatsSummaries ==
    [recentAverage : RecentAverages,
     last5Games : Last5Choices,
     last10Games : Last10Choices,
     consistency : Consistencies,
     trend : Trends]

----------------------------------------------------------------------------
(* Program constants of analyzeProjection *)

StrongThreshold == 15
ModerateThreshold == 8
HitRateThresholdTenths == 8
StrongConfidence == 70
ModerateConfidence == 55
HitRateConfidence == 60
WeakConfidence == 30
HighConsistencyBonus == 10
LowConsistencyPenalty == 15
TrendBonus == 10
MinConfidence == 45
ConfidenceCeiling == 100

----------------------------------------------------------------------------
(* Strings *)

SP == " "

RECURSIVE TrimStart(_)
TrimStart(s) ==
    IF s # <<>> /\ Head(s) = SP THEN TrimStart(Tail(s)) ELSE s

RECURSIVE TrimEnd(_)
TrimEnd(s) ==
    IF s # <<>> /\ s[Len(s)] = SP THEN TrimEnd(SubSeq(s, 1, Len(s) - 1)) ELSE s

\* String.prototype.trim
Trim(s) == TrimEnd(TrimStart(s))

----------------------------------------------------------------------------
(* analyzeProjection, block by block *)

NoResult ==
    [recommendation |-> "none", confidenceScore |-> 0, reasoning |-> <<>>,
     recentAverage |-> Null, gamesAnalyzed |-> 0]

\* variant: the early return reports "no confidence" as -1
InsufficientDataSentinel ==
    [recommendation |-> "skip",
     confidenceScore |-> -1,
     reasoning |-> <<"Insufficient data available for analysis">>,
     recentAverage |-> Null,
     gamesAnalyzed |-> 0]

InsufficientData ==
    [recommendation |-> "skip",
     confidenceScore |-> 0,
     reasoning |-> <<"Insufficient data available for analysis">>,
     recentAverage |-> Null,
     gamesAnalyzed |-> 0]

\* variant: && in place of ||
NoDataBoth(stats) ==
    stats.recentAverage = Null /\ Len(stats.last5Games) = 0

\* variant: the null test left out
NoDataEmptyOnly(stats) == Len(stats.last5Games) = 0

\* the test of the `if` that guards the function
NoData(stats) ==
    stats.recentAverage = Null \/ Len(stats.last5Games) = 0

difference(line, stats) == JsSub(stats.recentAverage, line)

percentDifference(line, stats) == JsPercent(difference(line, stats), line)

\* variant: >= in place of >
gamesOverInclusive(line, stats) ==
    Cardinality({i \in 1..Len(stats.last5Games) :
                    ~JsLt(stats.last5Games[i], line) /\ line.k # "nan"})

gamesOver(line, stats) ==
    Cardinality({i \in 1..Len(stats.last5Games) : JsGt(stats.last5Games[i], line)})

gamesUnder(line, stats) ==
    Cardinality({i \in 1..Len(stats.last5Games) : JsLt(stats.last5Games[i], line)})

RECURSIVE SumOfValues(_)
SumOfValues(values) ==
    IF values = <<>> THEN 0 ELSE Head(values).v + SumOfValues(Tail(values))

RECURSIVE SumOfSquares(_)
SumOfSquares(values) ==
    IF values = <<>> THEN 0 ELSE Head(values).v * Head(values).v + SumOfSquares(Tail(values))

\* calculateVariance returns the standard deviation sqrt(sum((x - mean)^2) / n);
\* held as its square times n^2, n * sum(x^2) - (sum x)^2, which is an integer
\* on the grid and is 0 exactly when the standard deviation is 0
calculateVariance(values) ==
    IF Len(values) = 0 THEN 0
    ELSE Len(values) * SumOfSquares(values) - SumOfValues(values) * SumOfValues(values)

\* variant: hitRate >= 0.5
HitRateReachedHalf(line, stats) ==
    MathMax(gamesOver(line, stats), gamesUnder(line, stats)) * 10
        >= 5 * Len(stats.last5Games)

\* variant: the hit-rate rule also asks for a standard deviation of 0
HitRateReachedSteady(line, stats) ==
    /\ MathMax(gamesOver(line, stats), gamesUnder(line, stats)) * 10
          >= HitRateThresholdTenths * Len(stats.last5Games)
    /\ calculateVariance(stats.last5Games) = 0

\* hitRate >= 0.8, with hitRate = Math.max(gamesOver, gamesUnder) / length
HitRateReached(line, stats) ==
    MathMax(gamesOver(line, stats), gamesUnder(line, stats)) * 10
        >= HitRateThresholdTenths * Len(stats.last5Games)

\* variant: the hit-rate rule tested before the moderate rule
DetermineRecommendationHitFirst(line, stats) ==
    LET pd == percentDifference(line, stats)
        above == JsGt(difference(line, stats), Fin(0))
        avgThrows == ToFixed1(stats.recentAverage).k = "TypeError"
        over == gamesOver(line, stats)
        under == gamesUnder(line, stats)
    IN  IF AbsExceeds(pd, StrongThreshold)
        THEN [recommendation |-> IF above THEN "over" ELSE "under",
              baseConfidence |-> StrongConfidence,
              reasoning |-> <<IF above THEN "average is pct above the line"
                                       ELSE "average is pct below the line", SP>>,
              error |-> avgThrows]
        ELSE IF HitRateReached(line, stats)
        THEN [recommendation |-> IF over > under THEN "over" ELSE "under",
              baseConfidence |-> HitRateConfidence,
              reasoning |-> <<IF over > under THEN "has hit over in k of last n games"
                                              ELSE "has hit under in k of last n games", SP>>,
              error |-> FALSE]
        ELSE IF AbsExceeds(pd, ModerateThreshold)
        THEN [recommendation |-> IF above THEN "over" ELSE "under",
              baseConfidence |-> ModerateConfidence,
              reasoning |-> <<IF above THEN "average is moderately above the line"
                                       ELSE "average is moderately below the line", SP>>,
              error |-> avgThrows]
        ELSE [recommendation |-> "skip",
              baseConfidence |-> WeakConfidence,
              reasoning |-> <<"line is close to recent average, coin flip", SP>>,
              error |-> avgThrows]

\* variant: the hit-rate rule takes its direction from the average
DetermineRecommendationByAverage(line, stats) ==
    LET pd == percentDifference(line, stats)
        above == JsGt(difference(line, stats), Fin(0))
        avgThrows == ToFixed1(stats.recentAverage).k = "TypeError"
    IN  IF AbsExceeds(pd, StrongThreshold)
        THEN [recommendation |-> IF above THEN "over" ELSE "under",
              baseConfidence |-> StrongConfidence,
              reasoning |-> <<IF above THEN "average is pct above the line"
                                       ELSE "average is pct below the line", SP>>,
              error |-> avgThrows]
        ELSE IF AbsExceeds(pd, ModerateThreshold)
        THEN [recommendation |-> IF above THEN "over" ELSE "under",
              baseConfidence |-> ModerateConfidence,
              reasoning |-> <<IF above THEN "average is moderately above the line"
                                       ELSE "average is moderately below the line", SP>>,
              error |-> avgThrows]
        ELSE IF HitRateReached(line, stats)
        THEN [recommendation |-> IF above THEN "over" ELSE "under",
              baseConfidence |-> HitRateConfidence,
              reasoning |-> <<IF above THEN "has hit over in k of last n games"
                                       ELSE "has hit under in k of last n games", SP>>,
              error |-> FALSE]
        ELSE [recommendation |-> "skip",
              baseConfidence |-> WeakConfidence,
              reasoning |-> <<"line is close to recent average, coin flip", SP>>,
              error |-> avgThrows]

\* the if / else-if chain that sets recommendation, baseConfidence and
\* reasoning; error is TRUE when a toFixed the branch evaluates throws
DetermineRecommendation(line, stats) ==
    LET pd == percentDifference(line, stats)
        above == JsGt(difference(line, stats), Fin(0))
        avgThrows == ToFixed1(stats.recentAverage).k = "TypeError"
        over == gamesOver(line, stats)
        under == gamesUnder(line, stats)
    IN  IF AbsExceeds(pd, StrongThreshold)
        THEN [recommendation |-> IF above THEN "over" ELSE "under",
              baseConfidence |-> StrongConfidence,
              reasoning |-> <<IF above THEN "average is pct above the line"
                                       ELSE "average is pct below the line", SP>>,
              error |-> avgThrows]
        ELSE IF AbsExceeds(pd, ModerateThreshold)
        THEN [recommendation |-> IF above THEN "over" ELSE "under",
              baseConfidence |-> ModerateConfidence,
              reasoning |-> <<IF above THEN "average is moderately above the line"
                                       ELSE "average is moderately below the line", SP>>,
              error |-> avgThrows]
        ELSE IF HitRateReached(line, stats)
        THEN [recommendation |-> IF over > under THEN "over" ELSE "under",
              baseConfidence |-> HitRateConfidence,
              reasoning |-> <<IF over > under THEN "has hit over in k of last n games"
                                              ELSE "has hit under in k of last n games", SP>>,
              error |-> FALSE]
        ELSE [recommendation |-> "skip",
              baseConfidence |-> WeakConfidence,
              reasoning |-> <<"line is close to recent average, coin flip", SP>>,
              error |-> avgThrows]

\* variant: low consistency costs what high consistency earns
AdjustForConsistencySymmetric(why, consistency) ==
    IF consistency = "high"
    THEN [confidenceAdjustment |-> HighConsistencyBonus,
          reasoning |-> why \o <<"Player shows high consistency.", SP>>]
    ELSE IF consistency = "low"
    THEN [confidenceAdjustment |-> -HighConsistencyBonus,
          reasoning |-> why \o <<"Player shows high variance in performance.", SP>>]
    ELSE [confidenceAdjustment |-> 0, reasoning |-> why]

\* variant: high consistency earns 20
AdjustForConsistencyTwenty(why, consistency) ==
    IF consistency = "high"
    THEN [confidenceAdjustment |-> 2 * HighConsistencyBonus,
          reasoning |-> why \o <<"Player shows high consistency.", SP>>]
    ELSE IF consistency = "low"
    THEN [confidenceAdjustment |-> -LowConsistencyPenalty,
          reasoning |-> why \o <<"Player shows high variance in performance.", SP>>]
    ELSE [confidenceAdjustment |-> 0, reasoning |-> why]

\* let confidenceAdjustment = 0 and the consistency if / else-if
AdjustForConsistency(why, consistency) ==
    IF consistency = "high"
    THEN [confidenceAdjustment |-> HighConsistencyBonus,
          reasoning |-> why \o <<"Player shows high consistency.", SP>>]
    ELSE IF consistency = "low"
    THEN [confidenceAdjustment |-> -LowConsistencyPenalty,
          reasoning |-> why \o <<"Player shows high variance in performance.", SP>>]
    ELSE [confidenceAdjustment |-> 0, reasoning |-> why]

\* variant: the under/increasing branch left out
AdjustForTrendNoCaution(adj, why, trend, rec) ==
    IF trend = "increasing" /\ rec = "over"
    THEN [confidenceAdjustment |-> adj + TrendBonus,
          reasoning |-> why \o <<"Player is trending upward.", SP>>]
    ELSE IF trend = "decreasing" /\ rec = "under"
    THEN [confidenceAdjustment |-> adj + TrendBonus,
          reasoning |-> why \o <<"Player is trending downward.", SP>>]
    ELSE IF trend = "decreasing" /\ rec = "over"
    THEN [confidenceAdjustment |-> adj - TrendBonus,
          reasoning |-> why \o <<"Caution: Player is trending downward.", SP>>]
    ELSE [confidenceAdjustment |-> adj, reasoning |-> why]

\* variant: = in place of += and -=
AdjustForTrendOverwrite(adj, why, trend, rec) ==
    IF trend = "increasing" /\ rec = "over"
    THEN [confidenceAdjustment |-> TrendBonus,
          reasoning |-> why \o <<"Player is trending upward.", SP>>]
    ELSE IF trend = "decreasing" /\ rec = "under"
    THEN [confidenceAdjustment |-> TrendBonus,
          reasoning |-> why \o <<"Player is trending downward.", SP>>]
    ELSE IF trend = "increasing" /\ rec = "under"
    THEN [confidenceAdjustment |-> -TrendBonus,
          reasoning |-> why \o <<"Caution: Player is trending upward.", SP>>]
    ELSE IF trend = "decreasing" /\ rec = "over"
    THEN [confidenceAdjustment |-> -TrendBonus,
          reasoning |-> why \o <<"Caution: Player is trending downward.", SP>>]
    ELSE [confidenceAdjustment |-> adj, reasoning |-> why]

\* variant: the favourable branches test `!== 'under'` and `!== 'over'`, so
\* they take a skip too
AdjustForTrendOnSkip(adj, why, trend, rec) ==
    IF trend = "increasing" /\ rec # "under"
    THEN [confidenceAdjustment |-> adj + TrendBonus,
          reasoning |-> why \o <<"Player is trending upward.", SP>>]
    ELSE IF trend = "decreasing" /\ rec # "over"
    THEN [confidenceAdjustment |-> adj + TrendBonus,
          reasoning |-> why \o <<"Player is trending downward.", SP>>]
    ELSE IF trend = "increasing" /\ rec = "under"
    THEN [confidenceAdjustment |-> adj - TrendBonus,
          reasoning |-> why \o <<"Caution: Player is trending upward.", SP>>]
    ELSE IF trend = "decreasing" /\ rec = "over"
    THEN [confidenceAdjustment |-> adj - TrendBonus,
          reasoning |-> why \o <<"Caution: Player is trending downward.", SP>>]
    ELSE [confidenceAdjustment |-> adj, reasoning |-> why]

\* variant: an opposing trend costs 15
AdjustForTrendCautionFifteen(adj, why, trend, rec) ==
    IF trend = "increasing" /\ rec = "over"
    THEN [confidenceAdjustment |-> adj + TrendBonus,
          reasoning |-> why \o <<"Player is trending upward.", SP>>]
    ELSE IF trend = "decreasing" /\ rec = "under"
    THEN [confidenceAdjustment |-> adj + TrendBonus,
          reasoning |-> why \o <<"Player is trending downward.", SP>>]
    ELSE IF trend = "increasing" /\ rec = "under"
    THEN [confidenceAdjustment |-> adj - 15,
          reasoning |-> why \o <<"Caution: Player is trending upward.", SP>>]
    ELSE IF trend = "decreasing" /\ rec = "over"
    THEN [confidenceAdjustment |-> adj - 15,
          reasoning |-> why \o <<"Caution: Player is trending downward.", SP>>]
    ELSE [confidenceAdjustment |-> adj, reasoning |-> why]

\* the trend if / else-if chain
AdjustForTrend(adj, why, trend, rec) ==
    IF trend = "increasing" /\ rec = "over"
    THEN [confidenceAdjustment |-> adj + TrendBonus,
          reasoning |-> why \o <<"Player is trending upward.", SP>>]
    ELSE IF trend = "decreasing" /\ rec = "under"
    THEN [confidenceAdjustment |-> adj + TrendBonus,
          reasoning |-> why \o <<"Player is trending downward.", SP>>]
    ELSE IF trend = "increasing" /\ rec = "under"
    THEN [confidenceAdjustment |-> adj - TrendBonus,
          reasoning |-> why \o <<"Caution: Player is trending upward.", SP>>]
    ELSE IF trend = "decreasing" /\ rec = "over"
    THEN [confidenceAdjustment |-> adj - TrendBonus,
          reasoning |-> why \o <<"Caution: Player is trending downward.", SP>>]
    ELSE [confidenceAdjustment |-> adj, reasoning |-> why]

\* variant: the floor of the clamp is 20
ClampConfidenceFloorTwenty(base, adj) == MathMax(20, MathMin(ConfidenceCeiling, base + adj))

\* Math.max(0, Math.min(100, baseConfidence + confidenceAdjustment))
ClampConfidence(base, adj) == MathMax(0, MathMin(ConfidenceCeiling, base + adj))

\* Math.round of a confidence, which is an integer already
MathRound(n) == n

\* variant: <= in place of <
LowConfidenceCheckInclusive(score, rec, why) ==
    IF score <= MinConfidence /\ rec # "skip"
    THEN [recommendation |-> "skip",
          reasoning |-> why \o <<"Low confidence - recommend skipping this pick.">>]
    ELSE [recommendation |-> rec, reasoning |-> why]

\* variant: the low-confidence sentence put in front of the reasoning
LowConfidenceCheckPrepend(score, rec, why) ==
    IF score < MinConfidence /\ rec # "skip"
    THEN [recommendation |-> "skip",
          reasoning |-> <<"Low confidence - recommend skipping this pick.", SP>> \o why]
    ELSE [recommendation |-> rec, reasoning |-> why]

\* the low-confidence check: recommendation and reasoning after it
LowConfidenceCheck(score, rec, why) ==
    IF score < MinConfidence /\ rec # "skip"
    THEN [recommendation |-> "skip",
          reasoning |-> why \o <<"Low confidence - recommend skipping this pick.">>]
    ELSE [recommendation |-> rec, reasoning |-> why]

\* variant: the games counted are those of last10Games
BuildResultLast10(rec, score, why, stats) ==
    [recommendation |-> rec,
     confidenceScore |-> score,
     reasoning |-> Trim(why),
     recentAverage |-> ToFixed1(stats.recentAverage),
     gamesAnalyzed |-> Len(stats.last10Games)]

\* the returned object
BuildResult(rec, score, why, stats) ==
    [recommendation |-> rec,
     confidenceScore |-> MathRound(score),
     reasoning |-> Trim(why),
     recentAverage |-> ToFixed1(stats.recentAverage),
     gamesAnalyzed |-> Len(stats.last5Games)]

----------------------------------------------------------------------------
(* The state machine *)

\* nothing else is running
NoBatch == projections = <<>> /\ batchResults = <<>> /\ batchPc = "idle"

NoCallers == callArgs = <<>> /\ frames = <<>>

NoProcedure ==
    /\ procedure = "none"
    /\ projectionsData = <<>>
    /\ routerPc = "idle"
    /\ cursor = 0
    /\ pendingAnalysis = NoResult
    /\ analyzed = 0
    /\ savedAnalyses = <<>>
    /\ engineArgs = <<>>
    /\ statsCalls = <<>>
    /\ response = [kind |-> "none"]

NoFetch ==
    /\ requests = <<>>
    /\ fetchI = 0
    /\ inFlight = {}
    /\ settled = <<>>
    /\ fetchResults = <<>>
    /\ fetchPc = "idle"

Init ==
    /\ lineScore \in LineScores
    /\ playerStats \in PlayerStatsSummaries
    /\ pc = "start"
    /\ recommendation = "skip"
    /\ baseConfidence = 0
    /\ reasoning = <<>>
    /\ confidenceAdjustment = 0
    /\ result = NoResult
    /\ NoBatch /\ NoCallers /\ NoProcedure /\ NoFetch

\* lines 36-47: destructure, and return early when there is no data
CheckData ==
    /\ pc = "start"
    /\ IF NoData(playerStats)
       THEN /\ result' = InsufficientData
            /\ pc' = "done"
       ELSE /\ pc' = "determine"
            /\ UNCHANGED result
    /\ UNCHANGED <<lineScore, playerStats, recommendation, baseConfidence,
                   reasoning, confidenceAdjustment>>
    /\ UNCHANGED <<batchVars, callVars, routerVars, fetchVars>>

\* lines 49-88; stdDev and coefficientOfVariation (lines 58-60) are computed
\* there and read nowhere, so they are no part of the state
Determine ==
    /\ pc = "determine"
    /\ LET d == DetermineRecommendation(lineScore, playerStats)
       IN  IF d.error
           THEN /\ pc' = "threw"
                /\ UNCHANGED <<recommendation, baseConfidence, reasoning>>
           ELSE /\ pc' = "consistency"
                /\ recommendation' = d.recommendation
                /\ baseConfidence' = d.baseConfidence
                /\ reasoning' = d.reasoning
    /\ UNCHANGED <<lineScore, playerStats, confidenceAdjustment, result>>
    /\ UNCHANGED <<batchVars, callVars, routerVars, fetchVars>>

\* lines 90-98
Consistency ==
    /\ pc = "consistency"
    /\ LET a == AdjustForConsistency(reasoning, playerStats.consistency)
       IN  /\ confidenceAdjustment' = a.confidenceAdjustment
           /\ reasoning' = a.reasoning
    /\ pc' = "trend"
    /\ UNCHANGED <<lineScore, playerStats, recommendation, baseConfidence, result>>
    /\ UNCHANGED <<batchVars, callVars, routerVars, fetchVars>>

\* lines 100-113
Trend ==
    /\ pc = "trend"
    /\ LET a == AdjustForTrend(confidenceAdjustment, reasoning,
                               playerStats.trend, recommendation)
       IN  /\ confidenceAdjustment' = a.confidenceAdjustment
           /\ reasoning' = a.reasoning
    /\ pc' = "final"
    /\ UNCHANGED <<lineScore, playerStats, recommendation, baseConfidence, result>>
    /\ UNCHANGED <<batchVars, callVars, routerVars, fetchVars>>

\* lines 115-131
Finalize ==
    /\ pc = "final"
    /\ LET confidenceScore == ClampConfidence(baseConfidence, confidenceAdjustment)
           c == LowConfidenceCheck(confidenceScore, recommendation, reasoning)
           r == BuildResult(c.recommendation, confidenceScore, c.reasoning, playerStats)
       IN  /\ recommendation' = c.recommendation
           /\ reasoning' = c.reasoning
           /\ IF r.recentAverage.k = "TypeError"
              THEN pc' = "threw" /\ UNCHANGED result
              ELSE pc' = "done" /\ result' = r
    /\ UNCHANGED <<lineScore, playerStats, baseConfidence, confidenceAdjustment>>
    /\ UNCHANGED <<batchVars, callVars, routerVars, fetchVars>>

Next == CheckData \/ Determine \/ Consistency \/ Trend \/ Finalize

Spec == Init /\ [][Next]_vars

----------------------------------------------------------------------------
(* analyzeProjection as a function of its arguments: the same blocks, run   *)
(* on an activation record                                                  *)

\* the activation record of a fresh call (the initial values of the lets)
EntryFrame ==
    [pc |-> "start", recommendation |-> "skip", baseConfidence |-> 0,
     reasoning |-> <<>>, confidenceAdjustment |-> 0, result |-> NoResult]

\* the next block of analyzeProjection(line, stats) on the record f
StepFrame(line, stats, f) ==
    CASE f.pc = "start" ->
            IF NoData(stats)
            THEN [f EXCEPT !.pc = "done", !.result = InsufficientData]
            ELSE [f EXCEPT !.pc = "determine"]
      [] f.pc = "determine" ->
            LET d == DetermineRecommendation(line, stats)
            IN  IF d.error THEN [f EXCEPT !.pc = "threw"]
                ELSE [f EXCEPT !.pc = "consistency",
                               !.recommendation = d.recommendation,
                               !.baseConfidence = d.baseConfidence,
                               !.reasoning = d.reasoning]
      [] f.pc = "consistency" ->
            LET a == AdjustForConsistency(f.reasoning, stats.consistency)
            IN  [f EXCEPT !.pc = "trend",
                          !.confidenceAdjustment = a.confidenceAdjustment,
                          !.reasoning = a.reasoning]
      [] f.pc = "trend" ->
            LET a == AdjustForTrend(f.confidenceAdjustment, f.reasoning,
                                    stats.trend, f.recommendation)
            IN  [f EXCEPT !.pc = "final",
                          !.confidenceAdjustment = a.confidenceAdjustment,
                          !.reasoning = a.reasoning]
      [] f.pc = "final" ->
            LET confidenceScore == ClampConfidence(f.baseConfidence, f.confidenceAdjustment)
                c == LowConfidenceCheck(confidenceScore, f.recommendation, f.reasoning)
                r == BuildResult(c.recommendation, confidenceScore, c.reasoning, stats)
            IN  IF r.recentAverage.k = "TypeError"
                THEN [f EXCEPT !.pc = "threw",
                               !.recommendation = c.recommendation,
                               !.reasoning = c.reasoning]
                ELSE [f EXCEPT !.pc = "done",
                               !.recommendation = c.recommendation,
                               !.reasoning = c.reasoning,
                               !.result = r]
      [] OTHER -> f

RECURSIVE RunFrame(_, _, _)
RunFrame(line, stats, f) ==
    IF f.pc \in {"done", "threw"} THEN f
    ELSE RunFrame(line, stats, StepFrame(line, stats, f))

\* the value a call returns when it runs alone
analyzeProjection(line, stats) == RunFrame(line, stats, EntryFrame).result

----------------------------------------------------------------------------
(* batchAnalyze *)

MaxBatch == 2

\* the summary with no data
EmptyStats ==
    [recentAverage |-> Null, last5Games |-> <<>>, last10Games |-> <<>>,
     consistency |-> "low", trend |-> "stable"]

\* five calls with five different results
SampleCalls ==
    { [lineScore |-> Fin(40),
       playerStats |-> [recentAverage |-> Fin(48), last5Games |-> Run(Fin(44), 5),
                        last10Games |-> <<>>, consistency |-> "high",
                        trend |-> "increasing"]],
      [lineScore |-> Fin(40),
       playerStats |-> [recentAverage |-> Fin(44), last5Games |-> Run(Fin(36), 2),
                        last10Games |-> <<>>, consistency |-> "low",
                        trend |-> "decreasing"]],
      [lineScore |-> Fin(44),
       playerStats |-> [recentAverage |-> Fin(44),
                        last5Games |-> Run(Fin(36), 3) \o Run(Fin(44), 2),
                        last10Games |-> <<>>, consistency |-> "medium",
                        trend |-> "stable"]],
      [lineScore |-> NaN,
       playerStats |-> [recentAverage |-> Fin(42), last5Games |-> Run(Fin(44), 1),
                        last10Games |-> <<>>, consistency |-> "high",
                        trend |-> "increasing"]],
      [lineScore |-> Fin(40), playerStats |-> EmptyStats] }

RECURSIVE SeqsUpTo(_, _)
SeqsUpTo(S, n) ==
    IF n = 0 THEN {<<>>}
    ELSE LET shorter == SeqsUpTo(S, n - 1)
         IN  shorter \cup {Append(q, x) : q \in {t \in shorter : Len(t) = n - 1}, x \in S}

\* no call of analyzeProjection is running
EngineIdle ==
    /\ lineScore = Fin(0)
    /\ playerStats = EmptyStats
    /\ pc = "idle"
    /\ recommendation = "skip"
    /\ baseConfidence = 0
    /\ reasoning = <<>>
    /\ confidenceAdjustment = 0
    /\ result = NoResult

\* variant: the results are collected with unshift
MapStoreUnshift(results, r) == <<r>> \o results

\* map() stores the callback's value at the index of the element
MapStore(results, r) == Append(results, r)

InitBatch ==
    /\ projections \in SeqsUpTo(SampleCalls, MaxBatch)
    /\ batchResults = <<>>
    /\ batchPc = "mapping"
    /\ EngineIdle
    /\ NoCallers /\ NoProcedure /\ NoFetch

\* map() calls the callback on the next element: a fresh call of
\* analyzeProjection(lineScore, playerStats)
BatchCallback ==
    /\ batchPc = "mapping"
    /\ Len(batchResults) < Len(projections)
    /\ LET p == projections[Len(batchResults) + 1]
       IN  /\ lineScore' = p.lineScore
           /\ playerStats' = p.playerStats
    /\ pc' = EntryFrame.pc
    /\ recommendation' = EntryFrame.recommendation
    /\ baseConfidence' = EntryFrame.baseConfidence
    /\ reasoning' = EntryFrame.reasoning
    /\ confidenceAdjustment' = EntryFrame.confidenceAdjustment
    /\ result' = EntryFrame.result
    /\ batchPc' = "inCallback"
    /\ UNCHANGED <<projections, batchResults, callVars, routerVars, fetchVars>>

\* the callback returns and map() stores its value
BatchStore ==
    /\ batchPc = "inCallback"
    /\ pc = "done"
    /\ batchResults' = MapStore(batchResults, result)
    /\ batchPc' = "mapping"
    /\ pc' = "idle"
    /\ UNCHANGED <<lineScore, playerStats, recommendation, baseConfidence, reasoning,
                   confidenceAdjustment, result, projections,
                   callVars, routerVars, fetchVars>>

\* map() has visited every element: batchAnalyze returns the array
BatchReturn ==
    /\ batchPc = "mapping"
    /\ Len(batchResults) >= Len(projections)
    /\ batchPc' = "returned"
    /\ UNCHANGED <<engineVars, projections, batchResults, callVars, routerVars, fetchVars>>

NextBatch ==
    \/ BatchCallback
    \/ CheckData \/ Determine \/ Consistency \/ Trend \/ Finalize
    \/ BatchStore
    \/ BatchReturn

SpecBatch == InitBatch /\ [][NextBatch]_vars

----------------------------------------------------------------------------
(* concurrent callers of analyzeProjection *)

MaxCallers == 2

\* variant: the let variables live at module level, one record for all calls
FrameOfShared(c) == 1

\* the lets are declared inside the function: each call has its own record
FrameOf(c) == c

InitConcurrent ==
    /\ \E n \in 1..MaxCallers :
          /\ callArgs \in [1..n -> SampleCalls]
          /\ frames = [c \in 1..n |-> EntryFrame]
    /\ EngineIdle
    /\ NoBatch /\ NoProcedure /\ NoFetch

\* caller c runs the next block of its call; the block reads the caller's
\* arguments and writes the call's activation record only
ConcurrentStep(c) ==
    /\ frames[FrameOf(c)].pc \notin {"done", "threw"}
    /\ frames' = [frames EXCEPT ![FrameOf(c)] =
                      StepFrame(callArgs[c].lineScore, callArgs[c].playerStats, @)]
    /\ UNCHANGED <<callArgs, engineVars, batchVars, routerVars, fetchVars>>

NextConcurrent == \E c \in DOMAIN callArgs : ConcurrentStep(c)

SpecConcurrent == InitConcurrent /\ [][NextConcurrent]_vars

----------------------------------------------------------------------------
(* the router procedures projections.analyze and projections.analyzeAll *)

MaxProjections == 2

\* lineScore is a varchar(32) column: texts that can be stored in it
StoredLineScores == {"20", "22.5", "", "N/A"}

\* parseFloat on those texts: the number at the start of the text, else NaN
parseFloat(s) ==
    CASE s = "20" -> Fin(40)
      [] s = "22.5" -> Fin(45)
      [] OTHER -> NaN

\* the rows of the projections table; row i has id i
ProjectionTables ==
    UNION {[1..n -> StoredLineScores] : n \in 0..MaxProjections}

Row(table, i) == [id |-> i, lineScore |-> table[i]]

\* what invokeLLM does on one call: it rejects, it answers without content,
\* or it answers with a text that JSON.parse turns into a value or rejects
LLMReplies ==
    { [kind |-> "rejected"], [kind |-> "noContent"], [kind |-> "notJson"],
      [kind |-> "json", value |-> Null],
      [kind |-> "json",
       value |-> [recentAverage |-> Fin(48), last5Games |-> Run(Fin(44), 5),
                  last10Games |-> <<>>, consistency |-> "high",
                  trend |-> "increasing"]] }

\* variant: the summary returned on an error has recentAverage 0
getPlayerStatsZeroAverage(request, reply) ==
    IF reply.kind = "json" THEN reply.value
    ELSE [request |-> request, recentAverage |-> Fin(0), last5Games |-> <<>>,
          last10Games |-> <<>>, consistency |-> "low", trend |-> "stable"]

\* getPlayerStats(playerName, sport, statType): the parsed reply as it is,
\* and on any error the empty summary for the request (the three arguments
\* are held as one value)
getPlayerStats(request, reply) ==
    IF reply.kind = "json" THEN reply.value
    ELSE [request |-> request, recentAverage |-> Null, last5Games |-> <<>>,
          last10Games |-> <<>>, consistency |-> "low", trend |-> "stable"]

\* a call of analyzeProjection from a procedure: destructuring a null
\* playerStats throws, and so does a call that ends in "threw"
CallAnalyze(line, stats) ==
    IF stats = Null THEN [threw |-> TRUE, result |-> NoResult]
    ELSE LET f == RunFrame(line, stats, EntryFrame)
         IN  [threw |-> f.pc = "threw", result |-> f.result]

\* variant: the try block around the whole loop, an error ends the run
AfterCatchAbort(index, total) == total + 1

\* the catch is inside the loop body: the loop goes on with the next one
AfterCatch(index, total) == index + 1

InitRouter ==
    /\ procedure \in {"analyze", "analyzeAll"}
    /\ projectionsData \in ProjectionTables
    /\ routerPc = "called"
    /\ cursor = 0
    /\ pendingAnalysis = NoResult
    /\ analyzed = 0
    /\ savedAnalyses = <<>>
    /\ engineArgs = <<>>
    /\ statsCalls = <<>>
    /\ response = [kind |-> "none"]
    /\ EngineIdle
    /\ NoBatch /\ NoCallers /\ NoFetch

RouterRest == <<engineVars, batchVars, callVars, fetchVars>>

\* analyze: getProjectionById finds the row
AnalyzeFound(projectionId) ==
    /\ procedure = "analyze" /\ routerPc = "called"
    /\ projectionId \in DOMAIN projectionsData
    /\ cursor' = projectionId
    /\ routerPc' = "fetching"
    /\ UNCHANGED <<procedure, projectionsData, pendingAnalysis, analyzed,
                   savedAnalyses, engineArgs, response, statsCalls, RouterRest>>

\* analyze: no such row
AnalyzeNotFound(projectionId) ==
    /\ procedure = "analyze" /\ routerPc = "called"
    /\ projectionId \notin DOMAIN projectionsData
    /\ routerPc' = "failed"
    /\ response' = [kind |-> "error", message |-> "Projection not found"]
    /\ UNCHANGED <<procedure, projectionsData, cursor, pendingAnalysis, analyzed,
                   savedAnalyses, engineArgs, statsCalls, RouterRest>>

\* analyze: getPlayerStats settles and analyzeProjection is called on
\* parseFloat(projection.lineScore)
AnalyzeFetch(reply) ==
    /\ procedure = "analyze" /\ routerPc = "fetching"
    /\ LET projection == Row(projectionsData, cursor)
           line == parseFloat(projection.lineScore)
           summary == getPlayerStats(projection.id, reply)
           call == CallAnalyze(line, summary)
       IN  /\ statsCalls' = Append(statsCalls, [request |-> projection.id, reply |-> reply,
                                                 summary |-> summary])
           /\ engineArgs' = Append(engineArgs, line)
           /\ IF call.threw
              THEN /\ routerPc' = "failed"
                   /\ response' = [kind |-> "error", message |-> "TypeError"]
                   /\ UNCHANGED pendingAnalysis
              ELSE /\ routerPc' = "saving"
                   /\ pendingAnalysis' = call.result
                   /\ UNCHANGED response
    /\ UNCHANGED <<procedure, projectionsData, cursor, analyzed, savedAnalyses,
                   RouterRest>>

\* analyze: saveAnalysis resolves, the procedure returns
AnalyzeSaveOk ==
    /\ procedure = "analyze" /\ routerPc = "saving"
    /\ savedAnalyses' = Append(savedAnalyses,
                               [projectionId |-> cursor, analysis |-> pendingAnalysis])
    /\ response' = [kind |-> "analyze",
                    projection |-> Row(projectionsData, cursor),
                    analysis |-> pendingAnalysis]
    /\ routerPc' = "returned"
    /\ UNCHANGED <<procedure, projectionsData, cursor, pendingAnalysis, analyzed,
                   engineArgs, statsCalls, RouterRest>>

\* analyze: saveAnalysis throws, the procedure fails
AnalyzeSaveFail ==
    /\ procedure = "analyze" /\ routerPc = "saving"
    /\ routerPc' = "failed"
    /\ response' = [kind |-> "error", message |-> "saveAnalysis"]
    /\ UNCHANGED <<procedure, projectionsData, cursor, pendingAnalysis, analyzed,
                   savedAnalyses, engineArgs, statsCalls, RouterRest>>

\* analyzeAll: getActiveProjections resolves, the loop starts
AllStart ==
    /\ procedure = "analyzeAll" /\ routerPc = "called"
    /\ cursor' = 1
    /\ routerPc' = "loop"
    /\ UNCHANGED <<procedure, projectionsData, pendingAnalysis, analyzed,
                   savedAnalyses, engineArgs, response, statsCalls, RouterRest>>

\* analyzeAll: the query of getActiveProjections rejects, outside the try
AllListFail ==
    /\ procedure = "analyzeAll" /\ routerPc = "called"
    /\ routerPc' = "failed"
    /\ response' = [kind |-> "error", message |-> "getActiveProjections"]
    /\ UNCHANGED <<procedure, projectionsData, cursor, pendingAnalysis, analyzed,
                   savedAnalyses, engineArgs, statsCalls, RouterRest>>

\* analyzeAll, in the try: getPlayerStats settles and analyzeProjection is
\* called on parseFloat(projection.lineScore); a throw goes to the catch
AllFetch(reply) ==
    /\ procedure = "analyzeAll" /\ routerPc = "loop"
    /\ cursor <= Len(projectionsData)
    /\ LET projection == Row(projectionsData, cursor)
           line == parseFloat(projection.lineScore)
           summary == getPlayerStats(projection.id, reply)
           call == CallAnalyze(line, summary)
       IN  /\ statsCalls' = Append(statsCalls, [request |-> projection.id, reply |-> reply,
                                                 summary |-> summary])
           /\ engineArgs' = Append(engineArgs, line)
           /\ IF call.threw
              THEN /\ cursor' = AfterCatch(cursor, Len(projectionsData))
                   /\ UNCHANGED <<routerPc, pendingAnalysis>>
              ELSE /\ routerPc' = "saving"
                   /\ pendingAnalysis' = call.result
                   /\ UNCHANGED cursor
    /\ UNCHANGED <<procedure, projectionsData, analyzed, savedAnalyses, response,
                   RouterRest>>

\* analyzeAll: saveAnalysis resolves, analyzed++
AllSaveOk ==
    /\ procedure = "analyzeAll" /\ routerPc = "saving"
    /\ savedAnalyses' = Append(savedAnalyses,
                               [projectionId |-> cursor, analysis |-> pendingAnalysis])
    /\ analyzed' = analyzed + 1
    /\ cursor' = cursor + 1
    /\ routerPc' = "loop"
    /\ UNCHANGED <<procedure, projectionsData, pendingAnalysis, engineArgs, response,
                   statsCalls, RouterRest>>

\* analyzeAll: saveAnalysis throws, the catch logs it
AllSaveFail ==
    /\ procedure = "analyzeAll" /\ routerPc = "saving"
    /\ cursor' = AfterCatch(cursor, Len(projectionsData))
    /\ routerPc' = "loop"
    /\ UNCHANGED <<procedure, projectionsData, pendingAnalysis, analyzed,
                   savedAnalyses, engineArgs, response, statsCalls, RouterRest>>

\* analyzeAll: the loop is over
AllReturn ==
    /\ procedure = "analyzeAll" /\ routerPc = "loop"
    /\ cursor > Len(projectionsData)
    /\ response' = [kind |-> "analyzeAll", success |-> TRUE,
                    analyzed |-> analyzed, total |-> Len(projectionsData)]
    /\ routerPc' = "returned"
    /\ UNCHANGED <<procedure, projectionsData, cursor, pendingAnalysis, analyzed,
                   savedAnalyses, engineArgs, statsCalls, RouterRest>>

NextRouter ==
    \/ \E projectionId \in 1..(MaxProjections + 1) : AnalyzeFound(projectionId)
    \/ \E projectionId \in 1..(MaxProjections + 1) : AnalyzeNotFound(projectionId)
    \/ \E reply \in LLMReplies : AnalyzeFetch(reply)
    \/ AnalyzeSaveOk
    \/ AnalyzeSaveFail
    \/ AllStart
    \/ AllListFail
    \/ \E reply \in LLMReplies : AllFetch(reply)
    \/ AllSaveOk
    \/ AllSaveFail
    \/ AllReturn

SpecRouter == InitRouter /\ [][NextRouter]_vars

----------------------------------------------------------------------------
(* batchGetPlayerStats *)

MaxRequests == 6

BATCH_SIZE == 5

\* the replies the calls of one batch get
FetchReplies ==
    {reply \in LLMReplies : reply.kind = "rejected" \/ (reply.kind = "json" /\ reply.value # Null)}

\* variant: slice(i), the end index left out
SliceIndicesOpenEnd(i, length) == (i + 1)..length

\* the (1-based) positions of projections.slice(i, i + BATCH_SIZE)
SliceIndices(i, length) == (i + 1)..MathMin(i + BATCH_SIZE, length)

\* variant: the summaries are collected in the order the calls settle
InBatchBySettling(j) ==
    Cardinality({k \in DOMAIN settled : settled[k].request # 0}) + 1

\* the position in the batch of the request at position j
InBatch(j) == j - fetchI

Pending == [request |-> 0, stats |-> Null]

InitFetch ==
    /\ \E n \in 0..MaxRequests : requests = [j \in 1..n |-> j]
    /\ fetchI = 0
    /\ inFlight = {}
    /\ settled = <<>>
    /\ fetchResults = <<>>
    /\ fetchPc = "loop"
    /\ EngineIdle
    /\ NoBatch /\ NoCallers /\ NoProcedure

FetchRest == <<engineVars, batchVars, callVars, routerVars>>

\* i < projections.length: batch.map starts getPlayerStats for every element
\* of the slice, and the loop awaits Promise.all
StartBatch ==
    /\ fetchPc = "loop"
    /\ fetchI < Len(requests)
    /\ inFlight' = SliceIndices(fetchI, Len(requests))
    /\ settled' = [k \in 1..Cardinality(SliceIndices(fetchI, Len(requests))) |-> Pending]
    /\ fetchPc' = "awaiting"
    /\ UNCHANGED <<requests, fetchI, fetchResults, FetchRest>>

\* one getPlayerStats call of the batch settles (it never rejects)
CallSettles(j, reply) ==
    /\ fetchPc = "awaiting"
    /\ j \in inFlight
    /\ inFlight' = inFlight \ {j}
    /\ settled' = [settled EXCEPT ![InBatch(j)] =
                       [request |-> requests[j], stats |-> getPlayerStats(requests[j], reply)]]
    /\ UNCHANGED <<requests, fetchI, fetchResults, fetchPc, FetchRest>>

\* Promise.all resolves: results.push(...batchResults), i += BATCH_SIZE
BatchSettled ==
    /\ fetchPc = "awaiting"
    /\ inFlight = {}
    /\ fetchResults' = fetchResults \o settled
    /\ settled' = <<>>
    /\ fetchI' = fetchI + BATCH_SIZE
    /\ fetchPc' = "loop"
    /\ UNCHANGED <<requests, inFlight, FetchRest>>

\* the loop is over: return results
FetchReturn ==
    /\ fetchPc = "loop"
    /\ fetchI >= Len(requests)
    /\ fetchPc' = "returned"
    /\ UNCHANGED <<requests, fetchI, inFlight, settled, fetchResults, FetchRest>>

NextFetch ==
    \/ StartBatch
    \/ \E j \in 1..MaxRequests, reply \in FetchReplies : CallSettles(j, reply)
    \/ BatchSettled
    \/ FetchReturn

SpecFetch == InitFetch /\ [][NextFetch]_vars

----------------------------------------------------------------------------
(* Properties of analyzeProjection *)

\* the clauses of a reasoning, blanks left out
Clauses(s) == SelectSeq(s, LAMBDA t : t # SP)

Returned == pc = "done"

\* the input takes the early return
GuardInput == playerStats.recentAverage = Null \/ playerStats.last5Games = <<>>

\* the consistency rule and the trend rule as the specification words them
ConsistencyTerm(consistency) ==
    CASE consistency = "high" -> 10
      [] consistency = "low" -> -15
      [] OTHER -> 0

TrendTerm(trend, rec) ==
    CASE (rec = "over" /\ trend = "increasing") \/ (rec = "under" /\ trend = "decreasing") -> 10
      [] (rec = "over" /\ trend = "decreasing") \/ (rec = "under" /\ trend = "increasing") -> -10
      [] OTHER -> 0

Clamp0To100(n) == IF n < 0 THEN 0 ELSE IF n > 100 THEN 100 ELSE n

\* C1: whenever recentAverage is null or last5Games is empty, whatever the
\* lineScore, consistency and trend, analyzeProjection returns at once, and
\* returns exactly skip, confidence 0, the insufficient-data reasoning,
\* recentAverage null and gamesAnalyzed 0.
C1_InsufficientData ==
    GuardInput =>
        /\ pc \in {"start", "done"}
        /\ Returned =>
              result = [recommendation |-> "skip",
                        confidenceScore |-> 0,
                        reasoning |-> <<"Insufficient data available for analysis">>,
                        recentAverage |-> Null,
                        gamesAnalyzed |-> 0]

C1_Witness ==
    /\ Returned
    /\ playerStats.recentAverage = Fin(44)
    /\ playerStats.last5Games = <<>>
    /\ playerStats.trend = "increasing"
    /\ lineScore = Fin(40)
    /\ result.recommendation = "skip"

\* C2: for any input (lineScore 0, negative, infinite or NaN included) the
\* returned confidenceScore is an integer in 0..100.
C2_ConfidenceRange ==
    Returned => result.confidenceScore \in 0..100

C2_Witness ==
    /\ Returned
    /\ lineScore = NaN
    /\ playerStats.recentAverage = Fin(0)
    /\ playerStats.consistency = "low"
    /\ result.confidenceScore = 15

\* C3: analyzeProjection never fails: no input makes it throw, from every
\* position short of the return it has a next step, and what it returns is a
\* structurally valid AnalysisResult.
ValidResult(r) ==
    /\ r.recommendation \in {"over", "under", "skip"}
    /\ r.confidenceScore \in Int
    /\ Len(r.reasoning) > 0
    /\ r.recentAverage.k \in {"null", "str", "strNaN", "strInfinity"}
    /\ r.gamesAnalyzed \in Nat

C3_NeverFails ==
    /\ pc # "threw"
    /\ Returned => ValidResult(result)
    /\ ~Returned => ENABLED Next

C3_Witness ==
    /\ Returned
    /\ lineScore = Fin(0)
    /\ playerStats.recentAverage = Fin(0)
    /\ Len(playerStats.last5Games) = 1
    /\ result.recommendation = "over"
    /\ result.confidenceScore \in 45..80
    /\ result.recentAverage = [k |-> "str", v |-> 0]

\* C4: the base decision is taken by the first matching rule, in the order
\* |percentDifference| > 15 (70), |percentDifference| > 8 (55),
\* hitRate >= 0.8 (60), otherwise skip (30); the percent rules take the
\* direction of difference, the hit-rate rule that of the game counts.
C4_BaseDecision ==
    pc = "consistency" =>
        LET pd == percentDifference(lineScore, playerStats)
            dir == IF JsGt(difference(lineScore, playerStats), Fin(0))
                   THEN "over" ELSE "under"
            over == gamesOver(lineScore, playerStats)
            under == gamesUnder(lineScore, playerStats)
            n == Len(playerStats.last5Games)
            hit == (IF over > under THEN over ELSE under) * 5 >= 4 * n
        IN  <<recommendation, baseConfidence>> =
                IF AbsExceeds(pd, 15) THEN <<dir, 70>>
                ELSE IF AbsExceeds(pd, 8) THEN <<dir, 55>>
                ELSE IF hit THEN <<IF over > under THEN "over" ELSE "under", 60>>
                ELSE <<"skip", 30>>

\* the 8-15% rule and the hit-rate rule both match, and they disagree on
\* the direction: the earlier rule decided
C4_Witness ==
    /\ pc = "consistency"
    /\ lineScore = Fin(40)
    /\ playerStats.recentAverage = Fin(44)
    /\ playerStats.last5Games = <<Fin(36), Fin(36), Fin(36), Fin(36), Fin(36)>>
    /\ recommendation = "over"
    /\ baseConfidence = 55

\* C5: in the final block, a computed confidence below 45 with a base
\* recommendation of over or under returns skip, keeps the computed
\* confidence and appends one low-confidence clause; a computed confidence
\* of 45 or more returns the base recommendation unchanged.
C5_PostCheck ==
    [][ (pc = "final" /\ pc' = "done") =>
          LET score == Clamp0To100(baseConfidence + confidenceAdjustment)
          IN  /\ (score < 45 /\ recommendation \in {"over", "under"}) =>
                    /\ result'.recommendation = "skip"
                    /\ result'.confidenceScore = score
                    /\ Clauses(result'.reasoning) =
                          Clauses(reasoning) \o
                              <<"Low confidence - recommend skipping this pick.">>
              /\ score >= 45 =>
                    /\ result'.recommendation = recommendation
                    /\ result'.confidenceScore = score
                    /\ Clauses(result'.reasoning) = Clauses(reasoning) ]_vars

C5_Witness ==
    /\ Returned
    /\ baseConfidence = 55
    /\ result.recommendation = "skip"
    /\ result.confidenceScore = 30
    /\ result.reasoning[Len(result.reasoning)] =
          "Low confidence - recommend skipping this pick."

\* C6: the consistency block sets the adjustment to +10 for high, -15 for
\* low and 0 for medium, and appends a clause for high and for low, none
\* for medium.
C6_ConsistencyAdjustment ==
    [][ pc = "consistency" =>
          /\ playerStats.consistency = "high" =>
                /\ confidenceAdjustment' = 10
                /\ Clauses(reasoning') =
                      Clauses(reasoning) \o <<"Player shows high consistency.">>
          /\ playerStats.consistency = "low" =>
                /\ confidenceAdjustment' = -15
                /\ Clauses(reasoning') =
                      Clauses(reasoning) \o <<"Player shows high variance in performance.">>
          /\ playerStats.consistency = "medium" =>
                /\ confidenceAdjustment' = 0
                /\ reasoning' = reasoning ]_vars

C6_Witness ==
    /\ pc = "trend"
    /\ playerStats.consistency = "low"
    /\ confidenceAdjustment = -15
    /\ Len(Clauses(reasoning)) = 2

\* C7: the trend block adds 10 when the trend agrees with the base
\* recommendation (over/increasing, under/decreasing), subtracts 10 and
\* appends a cautionary clause when it opposes it (over/decreasing,
\* under/increasing), and changes nothing for a stable trend.
C7_TrendAdjustment ==
    [][ pc = "trend" =>
          LET t == playerStats.trend
              r == recommendation
          IN  /\ ((r = "over" /\ t = "increasing") \/ (r = "under" /\ t = "decreasing")) =>
                    confidenceAdjustment' = confidenceAdjustment + 10
              /\ (r = "over" /\ t = "decreasing") =>
                    /\ confidenceAdjustment' = confidenceAdjustment - 10
                    /\ Clauses(reasoning') =
                          Clauses(reasoning) \o <<"Caution: Player is trending downward.">>
              /\ (r = "under" /\ t = "increasing") =>
                    /\ confidenceAdjustment' = confidenceAdjustment - 10
                    /\ Clauses(reasoning') =
                          Clauses(reasoning) \o <<"Caution: Player is trending upward.">>
              /\ t = "stable" =>
                    /\ confidenceAdjustment' = confidenceAdjustment
                    /\ reasoning' = reasoning ]_vars

C7_Witness ==
    /\ pc = "final"
    /\ recommendation = "under"
    /\ playerStats.trend = "increasing"
    /\ playerStats.consistency = "high"
    /\ confidenceAdjustment = 0
    /\ reasoning[Len(reasoning) - 1] = "Caution: Player is trending upward."

\* C8: the returned confidenceScore is clamp(baseConfidence + consistency
\* term + trend term, 0, 100), the terms being those of the base decision,
\* of the consistency rule and of the trend rule on the base recommendation.
C8_ConfidenceFormula ==
    [][ (pc = "final" /\ pc' = "done") =>
          result'.confidenceScore =
              Clamp0To100(baseConfidence
                          + ConsistencyTerm(playerStats.consistency)
                          + TrendTerm(playerStats.trend, recommendation)) ]_vars

\* example 1 of the specification: 70 + 10 + 10
C8_Witness ==
    /\ Returned
    /\ baseConfidence = 70
    /\ playerStats.consistency = "high"
    /\ playerStats.trend = "increasing"
    /\ result.recommendation = "over"
    /\ result.confidenceScore = 90

\* C9 as stated: when the base recommendation is skip, the consistency
\* adjustment and the trend adjustment are both applied to the confidence,
\* so a trend that is not stable moves the score by 10, and the returned
\* recommendation stays skip.
C9_TrendAppliedOnSkip ==
    (Returned /\ baseConfidence = 30) =>
        /\ result.recommendation = "skip"
        /\ playerStats.trend # "stable" =>
              result.confidenceScore
                  \in {30 + ConsistencyTerm(playerStats.consistency) + 10,
                       30 + ConsistencyTerm(playerStats.consistency) - 10}

\* C9 amended: when the base recommendation is skip, the consistency
\* adjustment alone is applied: the returned confidence is 30 plus the
\* consistency term whatever the trend, and the recommendation stays skip.
C9_OnlyConsistencyOnSkip ==
    (Returned /\ baseConfidence = 30) =>
        /\ result.recommendation = "skip"
        /\ result.confidenceScore = 30 + ConsistencyTerm(playerStats.consistency)

C9_Witness ==
    /\ Returned
    /\ baseConfidence = 30
    /\ playerStats.trend = "increasing"
    /\ playerStats.consistency = "high"
    /\ result.recommendation = "skip"
    /\ result.confidenceScore = 40

\* the quantities the claims name, on the current arguments
PctExceeds(t) == AbsExceeds(percentDifference(lineScore, playerStats), t)

PctExactly(t) ==
    LET pd == percentDifference(lineScore, playerStats)
    IN  pd.k = "fin" /\ Abs(pd.n) = t * Abs(pd.d)

Over == gamesOver(lineScore, playerStats)
Under == gamesUnder(lineScore, playerStats)
Games == Len(playerStats.last5Games)
Most == IF Over > Under THEN Over ELSE Under

\* C12: with lineScore exactly 0 and a recentAverage that is neither null
\* nor 0 (and games to analyse), the first base rule decides whatever the
\* games are: base confidence 70, over for a positive average and under for
\* a negative one.
C12_ZeroLine ==
    (/\ pc = "consistency"
     /\ lineScore = Fin(0)
     /\ playerStats.recentAverage.k = "fin"
     /\ playerStats.recentAverage.v # 0) =>
        /\ baseConfidence = 70
        /\ recommendation = IF playerStats.recentAverage.v > 0 THEN "over" ELSE "under"

\* a negative average against five games above the line 0
C12_Witness ==
    /\ pc = "consistency"
    /\ lineScore = Fin(0)
    /\ playerStats.recentAverage = Fin(-46)
    /\ playerStats.last5Games = <<Fin(44), Fin(44), Fin(44), Fin(44), Fin(44)>>
    /\ recommendation = "under"
    /\ baseConfidence = 70

\* C14: on the main path gamesAnalyzed is the length of last5Games, not of
\* last10Games, and recentAverage is the argument's recentAverage written
\* with one decimal (in tenths: five times its value in halves), not null
\* and not an average of the games.
C14_ResultFields ==
    (Returned /\ ~GuardInput) =>
        /\ result.gamesAnalyzed = Len(playerStats.last5Games)
        /\ result.recentAverage.k = "str"
        /\ result.recentAverage.v = 5 * playerStats.recentAverage.v

\* last10Games of another length, games whose mean (22.0) is not the average (17.0)
C14_Witness ==
    /\ Returned
    /\ lineScore = Fin(40)
    /\ playerStats.recentAverage = Fin(34)
    /\ playerStats.last5Games = <<Fin(44), Fin(44), Fin(44), Fin(44), Fin(44)>>
    /\ Len(playerStats.last10Games) = 3
    /\ result.gamesAnalyzed = 5
    /\ result.recentAverage = [k |-> "str", v |-> 170]

\* C15 as stated (README, Confidence Score Calculation): the base confidence
\* is 75 above 15% and 60 between 8% and 15%, then adjusted by consistency
\* and trend, clamped to 0..100, and skipped below 45.
C15_ReadmeBaseConfidence ==
    (Returned /\ ~GuardInput /\ PctExceeds(8)) =>
        LET dir == IF JsGt(difference(lineScore, playerStats), Fin(0))
                   THEN "over" ELSE "under"
            score == Clamp0To100((IF PctExceeds(15) THEN 75 ELSE 60)
                                 + ConsistencyTerm(playerStats.consistency)
                                 + TrendTerm(playerStats.trend, dir))
        IN  /\ result.confidenceScore = score
            /\ result.recommendation = IF score < 45 THEN "skip" ELSE dir

\* C19: the percent thresholds are strict and the hit-rate threshold is
\* inclusive: a percentDifference of exactly 15 or -15 takes the 55 rule, one
\* of exactly 8 or -8 takes no percent rule and is decided by the hit rate,
\* and a hitRate of exactly 0.8 takes the 60 rule.
C19_ThresholdEdges ==
    pc = "consistency" =>
        /\ PctExactly(15) => baseConfidence = 55
        /\ PctExactly(8) => baseConfidence = IF Most * 5 >= 4 * Games THEN 60 ELSE 30
        /\ (~PctExceeds(8) /\ Most * 5 = 4 * Games) => baseConfidence = 60

\* -8% exactly (line 25.0, average 23.0) with four of five games above the
\* line cannot be had on the inputs; the witness is 5% with 4 of 5 games under
C19_Witness ==
    /\ pc = "consistency"
    /\ lineScore = Fin(40)
    /\ playerStats.recentAverage = Fin(42)
    /\ playerStats.last5Games = <<Fin(36), Fin(36), Fin(36), Fin(36), Fin(44)>>
    /\ recommendation = "under"
    /\ baseConfidence = 60

\* the other two edges are reached too
C19_WitnessFifteen ==
    /\ pc = "consistency"
    /\ lineScore = Fin(40)
    /\ playerStats.recentAverage = Fin(34)
    /\ baseConfidence = 55

C19_WitnessEight ==
    /\ pc = "consistency"
    /\ lineScore = Fin(50)
    /\ playerStats.recentAverage = Fin(54)
    /\ Len(playerStats.last5Games) = 5
    /\ recommendation = "under"
    /\ baseConfidence = 60

\* C20: a game equal to lineScore is counted neither over nor under, so
\* gamesOver + gamesUnder is at most the number of games less the equal
\* ones, and it still counts in the denominator: when no percent rule
\* matches, the hit-rate rule decides exactly when
\* max(gamesOver, gamesUnder) / length(last5Games) >= 0.8.
C20_EqualGames ==
    pc = "consistency" =>
        LET equal == Cardinality({i \in 1..Games : playerStats.last5Games[i] = lineScore})
        IN  /\ Over + Under <= Games - equal
            /\ Over + Under <= Games
            /\ ~PctExceeds(8) => (baseConfidence = 60 <=> Most * 5 >= 4 * Games)

\* line 22.0 with games 18, 18, 18, 22, 22: three under, two equal, hit
\* rate 3/5 and not 3/3, so the weak rule decides
C20_Witness ==
    /\ pc = "consistency"
    /\ lineScore = Fin(44)
    /\ playerStats.recentAverage = Fin(44)
    /\ playerStats.last5Games = <<Fin(36), Fin(36), Fin(36), Fin(44), Fin(44)>>
    /\ recommendation = "skip"
    /\ baseConfidence = 30

\* C11: batchAnalyze returns a list as long as its input whose i-th element
\* is what analyzeProjection returns, run alone, on the i-th item's
\* lineScore and playerStats, whatever the other items and their order.
C11_BatchMatchesSingle ==
    batchPc = "returned" =>
        /\ Len(batchResults) = Len(projections)
        /\ \A i \in 1..Len(projections) :
              batchResults[i] =
                  analyzeProjection(projections[i].lineScore, projections[i].playerStats)

\* an insufficient-data item first, a strong over second
C11_Witness ==
    /\ batchPc = "returned"
    /\ Len(projections) = 2
    /\ projections[1].playerStats = EmptyStats
    /\ batchResults[1].recommendation = "skip"
    /\ batchResults[1].confidenceScore = 0
    /\ batchResults[2].recommendation = "over"
    /\ batchResults[2].confidenceScore = 90

\* C13: under any interleaving of concurrent calls, a call that has returned
\* returned what analyzeProjection returns on its arguments when run alone,
\* and no step changes any caller's arguments (line, stats, game lists).
C13_ConcurrentCalls ==
    /\ [](\A c \in DOMAIN frames :
             frames[c].pc = "done" =>
                 frames[c].result =
                     analyzeProjection(callArgs[c].lineScore, callArgs[c].playerStats))
    /\ [][callArgs' = callArgs]_vars

\* two calls with different arguments, the first returned while the second
\* is in the middle of its blocks
C13_Witness ==
    /\ DOMAIN frames = 1..2
    /\ callArgs[1] # callArgs[2]
    /\ frames[1].pc = "done"
    /\ frames[1].result.recommendation = "over"
    /\ frames[2].pc = "trend"

\* C16: every lineScore the procedures analyze and analyzeAll pass to
\* analyzeProjection is a parsed number, never NaN (a stored lineScore that
\* does not parse is dealt with before the engine is called).
C16_ParsedLineScores ==
    \A i \in DOMAIN engineArgs : engineArgs[i] # NaN

\* C17: in analyzeAll a failure on one projection does not abort the run:
\* once the loop has begun the procedure never fails, and at the return
\* every active projection has been handed to the engine in turn, success
\* is true, analyzed is the number of saved analyses and analyzed <= total.
C17_AnalyzeAllContinues ==
    procedure = "analyzeAll" =>
        /\ cursor >= 1 => routerPc # "failed"
        /\ routerPc = "returned" =>
              /\ response.success = TRUE
              /\ response.total = Len(projectionsData)
              /\ response.analyzed = Len(savedAnalyses)
              /\ response.analyzed <= response.total
              /\ Len(engineArgs) = Len(projectionsData)
              /\ \A i \in DOMAIN engineArgs :
                    engineArgs[i] = parseFloat(projectionsData[i])
              /\ \A i, j \in DOMAIN savedAnalyses :
                    i < j => savedAnalyses[i].projectionId < savedAnalyses[j].projectionId

\* two projections, the first one failed, the second one was saved
C17_Witness ==
    /\ procedure = "analyzeAll"
    /\ routerPc = "returned"
    /\ response.total = 2
    /\ response.analyzed = 1
    /\ Len(savedAnalyses) = 1
    /\ savedAnalyses[1].projectionId = 2

\* the group of 5 a request position belongs to
GroupOf(j) == (j - 1) \div 5

\* C18: at every moment at most 5 getPlayerStats calls are in flight, and
\* while a call is in flight every call of every earlier group of 5 has
\* completed (its result is in results) and no call of a later group has
\* been started.
C18_BoundedConcurrency ==
    /\ Cardinality(inFlight) <= 5
    /\ \A j \in inFlight :
          /\ j \in DOMAIN requests
          /\ \A k \in DOMAIN requests :
                GroupOf(k) < GroupOf(j) =>
                    /\ k \notin inFlight
                    /\ k <= Len(fetchResults)
                    /\ fetchResults[k].request = requests[k]
    /\ \A k \in DOMAIN requests :
          (\E j \in inFlight : GroupOf(j) < GroupOf(k)) =>
              /\ k \notin inFlight
              /\ k > Len(fetchResults)

\* six requests: the five of the first group are done, the sixth is in flight
C18_Witness ==
    /\ Len(requests) = 6
    /\ inFlight = {6}
    /\ Len(fetchResults) = 5
    /\ fetchPc = "awaiting"

\* five calls in flight at once
C18_WitnessFull ==
    /\ Len(requests) = 6
    /\ Cardinality(inFlight) = 5

----------------------------------------------------------------------------
(* Reasoning order, irrelevant inputs, score bands *)

BaseClauses ==
    {"average is pct above the line", "average is pct below the line",
     "average is moderately above the line", "average is moderately below the line",
     "has hit over in k of last n games", "has hit under in k of last n games",
     "line is close to recent average, coin flip"}

ConsistencyClauses ==
    {"Player shows high consistency.", "Player shows high variance in performance."}

CautionClauses ==
    {"Caution: Player is trending upward.", "Caution: Player is trending downward."}

TrendClauses ==
    {"Player is trending upward.", "Player is trending downward."} \cup CautionClauses

LowConfidenceClause == "Low confidence - recommend skipping this pick."

\* the place of a clause in the order base, consistency, trend, low confidence
ClauseRank(c) ==
    CASE c \in BaseClauses -> 1
      [] c \in ConsistencyClauses -> 2
      [] c \in TrendClauses -> 3
      [] c = LowConfidenceClause -> 4
      [] OTHER -> 0

\* C21: the reasoning of every non-guard result starts with exactly one base
\* clause, followed by at most one consistency clause, then at most one
\* trend clause, then the low-confidence clause, which is there exactly when
\* an over or under was forced to skip and is then the last clause; a forced
\* skip with an opposing trend ends with the cautionary clause followed by
\* the low-confidence clause.
C21_ReasoningOrder ==
    /\ []((Returned /\ ~GuardInput) =>
            LET c == Clauses(result.reasoning)
            IN  /\ Len(c) >= 1
                /\ ClauseRank(c[1]) = 1
                /\ \A i \in 1..Len(c) : ClauseRank(c[i]) # 0
                /\ \A i \in 1..(Len(c) - 1) : ClauseRank(c[i]) < ClauseRank(c[i + 1])
                /\ result.reasoning[Len(result.reasoning)] # SP)
    /\ [][ (pc = "final" /\ pc' = "done") =>
             LET c == Clauses(result'.reasoning)
                 forced == recommendation # "skip" /\ result'.recommendation = "skip"
             IN  /\ forced <=> c[Len(c)] = LowConfidenceClause
                 /\ (forced /\ TrendTerm(playerStats.trend, recommendation) = -10) =>
                       /\ Len(c) >= 3
                       /\ c[Len(c) - 1] \in CautionClauses ]_vars

\* a moderate over with low consistency and a decreasing trend: 55 - 15 - 10
C21_Witness ==
    /\ Returned
    /\ result.recommendation = "skip"
    /\ result.confidenceScore = 30
    /\ Clauses(result.reasoning) =
          <<"average is moderately above the line",
            "Player shows high variance in performance.",
            "Caution: Player is trending downward.",
            "Low confidence - recommend skipping this pick.">>

\* the summaries that agree with the analysed one on everything but the
\* values of last5Games (same length, same counts above and below the line)
\* and the content of last10Games
SameCounts ==
    LET WithGames(g) == [playerStats EXCEPT !.last5Games = g]
    IN  {[WithGames(g) EXCEPT !.last10Games = t] :
            g \in {h \in Last5Choices :
                      /\ Len(h) = Len(playerStats.last5Games)
                      /\ gamesOver(lineScore, WithGames(h)) = gamesOver(lineScore, playerStats)
                      /\ gamesUnder(lineScore, WithGames(h)) = gamesUnder(lineScore, playerStats)},
            t \in Last10Choices}

\* C22: the spread of last5Games and the content of last10Games do not
\* influence the decision: every non-guard input that agrees with the
\* analysed one on lineScore, recentAverage, the counts of last5Games above
\* and below the line, its length, consistency and trend gets the same
\* recommendation and the same confidenceScore.
C22_SpreadIrrelevant ==
    (Returned /\ ~GuardInput) =>
        \A other \in SameCounts :
            LET r == analyzeProjection(lineScore, other)
            IN  /\ r.recommendation = result.recommendation
                /\ r.confidenceScore = result.confidenceScore

\* the hit-rate rule decided under on two games of different values, and an
\* agreeing input has two equal games and another last10Games
C22_Witness ==
    /\ Returned
    /\ lineScore = Fin(50)
    /\ playerStats.recentAverage = Fin(48)
    /\ playerStats.last5Games = <<Fin(36), Fin(44)>>
    /\ result.recommendation = "under"
    /\ baseConfidence = 60
    /\ calculateVariance(playerStats.last5Games) > 0
    /\ \E other \in SameCounts :
          /\ calculateVariance(other.last5Games) = 0
          /\ other.last10Games # playerStats.last10Games

----------------------------------------------------------------------------
(* getPlayerStats and batchGetPlayerStats *)

\* the replies that are an error of the stats source
ErrorReplyKinds == {"rejected", "noContent", "notJson"}

\* C23: getPlayerStats never fails to its caller: each call is followed by
\* the caller's analyzeProjection call, and on a failed call, a reply without
\* content or an unparseable reply it returns the summary of the request
\* with recentAverage null, no games, consistency low and trend stable, from
\* which the analysis is the insufficient-data result (skip, confidence 0).
C23_StatsFallback ==
    /\ Len(statsCalls) = Len(engineArgs)
    /\ \A i \in DOMAIN statsCalls :
          statsCalls[i].reply.kind \in ErrorReplyKinds =>
              /\ statsCalls[i].summary =
                    [request |-> statsCalls[i].request,
                     recentAverage |-> Null,
                     last5Games |-> <<>>,
                     last10Games |-> <<>>,
                     consistency |-> "low",
                     trend |-> "stable"]
              /\ (routerPc = "saving" /\ i = Len(statsCalls)) =>
                    /\ pendingAnalysis.recommendation = "skip"
                    /\ pendingAnalysis.confidenceScore = 0
                    /\ pendingAnalysis.reasoning = <<"Insufficient data available for analysis">>
                    /\ pendingAnalysis.recentAverage = Null
                    /\ pendingAnalysis.gamesAnalyzed = 0
    /\ (routerPc = "failed" /\ response.message = "TypeError") =>
          statsCalls[Len(statsCalls)].reply.kind \notin ErrorReplyKinds

\* analyze on the second row, the reply was not JSON, the insufficient-data
\* analysis is about to be saved
C23_Witness ==
    /\ procedure = "analyze"
    /\ routerPc = "saving"
    /\ Len(statsCalls) = 1
    /\ statsCalls[1].reply.kind = "notJson"
    /\ statsCalls[1].request = 2
    /\ statsCalls[1].summary.request = 2
    /\ pendingAnalysis.recommendation = "skip"
    /\ pendingAnalysis.confidenceScore = 0

\* C24: batchGetPlayerStats returns a list as long as its input whose i-th
\* element is the summary the call for the i-th request resolved with,
\* whatever the order in which the calls of a group settle; while it runs,
\* results holds exactly the summaries of the groups done, in input order.
C24_ResultsInRequestOrder ==
    /\ Len(fetchResults) <= Len(requests)
    /\ \A i \in DOMAIN fetchResults :
          /\ fetchResults[i].request = requests[i]
          /\ fetchResults[i].stats # Null
    /\ \A k \in DOMAIN settled :
          settled[k] # Pending => settled[k].request = requests[fetchI + k]
    /\ fetchPc = "returned" => Len(fetchResults) = Len(requests)

\* six requests answered; the first call failed, the second got a reply
C24_Witness ==
    /\ fetchPc = "returned"
    /\ Len(requests) = 6
    /\ Len(fetchResults) = 6
    /\ fetchResults[1].stats.recentAverage = Null
    /\ fetchResults[2].stats.recentAverage = Fin(48)
    /\ fetchResults[6].request = 6

\* the fourth call of a group has settled while the first is still pending
C24_WitnessOutOfOrder ==
    /\ fetchPc = "awaiting"
    /\ Len(settled) >= 4
    /\ 1 \in inFlight
    /\ 4 \notin inFlight
    /\ settled[4].request = 4
    /\ settled[1] = Pending

----------------------------------------------------------------------------
(* Score bands and rule interplay of analyzeProjection *)

\* C25: for every input the returned recommendation is skip exactly when
\* the returned confidenceScore is below 45: an over or under has a score
\* in 45..90, a skip (guard, weak signal or forced) a score of at most 40.
C25_SkipIffBelow45 ==
    Returned =>
        /\ result.recommendation = "skip" <=> result.confidenceScore < 45
        /\ result.recommendation \in {"over", "under"} =>
              result.confidenceScore \in 45..90
        /\ result.recommendation = "skip" => result.confidenceScore <= 40

\* the lowest over: 70 - 15 - 10
C25_Witness ==
    /\ Returned
    /\ result.recommendation = "over"
    /\ result.confidenceScore = 45
    /\ playerStats.consistency = "low"
    /\ playerStats.trend = "decreasing"

\* the highest skip: 30 + 10
C25_WitnessSkip ==
    /\ Returned
    /\ result.recommendation = "skip"
    /\ result.confidenceScore = 40

\* C26: the clamp to 0..100 never binds: for every non-guard input
\* baseConfidence + confidenceAdjustment is a multiple of 5 between 15 and
\* 90, and the returned confidenceScore is that sum.
C26_ClampNeverBinds ==
    (Returned /\ ~GuardInput) =>
        LET sum == baseConfidence + confidenceAdjustment
        IN  /\ sum \in 15..90
            /\ sum % 5 = 0
            /\ result.confidenceScore = sum

\* the lowest sum: a weak signal with low consistency, 30 - 15
C26_Witness ==
    /\ Returned
    /\ baseConfidence = 30
    /\ confidenceAdjustment = -15
    /\ result.confidenceScore = 15

\* the highest sum: 70 + 10 + 10
C26_WitnessHigh ==
    /\ Returned
    /\ baseConfidence + confidenceAdjustment = 90
    /\ result.confidenceScore = 90

\* C27: a result decided by the first base rule (|percentDifference| > 15,
\* which every lineScore = 0 with a recentAverage other than 0 is) is never
\* forced to skip: its confidenceScore is at least 45, reached with low
\* consistency and an opposing trend, and the returned recommendation is
\* over or under.
C27_StrongNeverForced ==
    /\ (Returned /\ ~GuardInput /\ lineScore = Fin(0)
          /\ playerStats.recentAverage # Fin(0)) => PctExceeds(15)
    /\ (Returned /\ ~GuardInput /\ PctExceeds(15)) =>
          /\ result.recommendation \in {"over", "under"}
          /\ result.confidenceScore >= 45
          /\ LowConfidenceClause \notin {result.reasoning[i] : i \in DOMAIN result.reasoning}
          /\ (playerStats.consistency = "low"
                /\ TrendTerm(playerStats.trend, result.recommendation) = -10) =>
                    result.confidenceScore = 45

\* line 0 and a negative average: under, low consistency, increasing trend
C27_Witness ==
    /\ Returned
    /\ lineScore = Fin(0)
    /\ playerStats.recentAverage = Fin(-46)
    /\ playerStats.consistency = "low"
    /\ playerStats.trend = "increasing"
    /\ result.recommendation = "under"
    /\ result.confidenceScore = 45

\* C28: whenever the hit-rate rule decides (baseConfidence 60), gamesOver
\* and gamesUnder differ, so under is chosen only when gamesUnder >
\* gamesOver and never as the default of a tie.
C28_HitRateNoTie ==
    (pc = "consistency" /\ baseConfidence = 60) =>
        /\ ~PctExceeds(8)
        /\ Most * 10 >= 8 * Games
        /\ Over # Under
        /\ recommendation = "under" <=> Under > Over
        /\ recommendation = "over" <=> Over > Under

\* four of five games under the line, one over it
C28_Witness ==
    /\ pc = "consistency"
    /\ baseConfidence = 60
    /\ recommendation = "under"
    /\ Under = 4
    /\ Over = 1

\* C29: after the base decision, a direction set by a percent rule (base
\* confidence 70 or 55) is over exactly when recentAverage - lineScore > 0
\* and under otherwise; a direction set by the hit-rate rule (60) is over
\* exactly when gamesOver > gamesUnder, whatever the sign of the difference,
\* so under with recentAverage > lineScore and over with recentAverage <
\* lineScore both occur (C29_Witness, C29_WitnessOver).
C29_DirectionSource ==
    pc = "consistency" =>
        LET above == JsGt(playerStats.recentAverage, lineScore)
        IN  /\ baseConfidence \in {70, 55} =>
                  /\ recommendation \in {"over", "under"}
                  /\ recommendation = "over" <=> above
            /\ baseConfidence = 60 =>
                  /\ recommendation \in {"over", "under"}
                  /\ recommendation = "over" <=> Over > Under
            /\ baseConfidence = 30 => recommendation = "skip"

\* the hit-rate rule says under while the average is above the line
C29_Witness ==
    /\ pc = "consistency"
    /\ baseConfidence = 60
    /\ recommendation = "under"
    /\ lineScore = Fin(40)
    /\ playerStats.recentAverage = Fin(42)
    /\ JsGt(playerStats.recentAverage, lineScore)

\* the hit-rate rule says over while the average is below the line
C29_WitnessOver ==
    /\ pc = "consistency"
    /\ baseConfidence = 60
    /\ recommendation = "over"
    /\ JsLt(playerStats.recentAverage, lineScore)

\* C30: with lineScore NaN and stats that pass the guard, analyzeProjection
\* never returns over or under: no game counts as over or under, no percent
\* rule and no hit-rate rule matches, and the result is skip with 30
\* adjusted by consistency only (40, 30 or 15), without a trend clause.
C30_NaNLineSkips ==
    (Returned /\ lineScore = NaN /\ ~GuardInput) =>
        /\ Over = 0 /\ Under = 0
        /\ ~PctExceeds(8)
        /\ baseConfidence = 30
        /\ result.recommendation = "skip"
        /\ result.confidenceScore = 30 + ConsistencyTerm(playerStats.consistency)
        /\ result.confidenceScore \in {40, 30, 15}
        /\ \A i \in DOMAIN result.reasoning : result.reasoning[i] \notin TrendClauses
        /\ result.reasoning[1] = "line is close to recent average, coin flip"

\* five games, high consistency, decreasing trend: skip with 40
C30_Witness ==
    /\ Returned
    /\ lineScore = NaN
    /\ Len(playerStats.last5Games) = 5
    /\ playerStats.consistency = "high"
    /\ playerStats.trend = "decreasing"
    /\ result.recommendation = "skip"
    /\ result.confidenceScore = 40

====
